---- MODULE Spec2Model ----
(***************************************************************************)
(* A model of the printf-specifier decoder (src/src/main.rs) and of the    *)
(* hand-ported virtual machine (src/src/ex.rs).                            *)
(*                                                                         *)
(* Byte slices are sequences of byte values (0..255); Rust's 0-based       *)
(* mem[0] is m[1] here and &mem[1..] is Tail(m).  A panic (index out of    *)
(* bounds, assert!, panic!(), arithmetic overflow in a build with overflow *)
(* checks) is a result whose status is "panic".                            *)
(***************************************************************************)
EXTENDS Integers, Sequences, FiniteSets, TLC

VARIABLES
    \* ---- decoder harness (main.rs) ----
    bytes,            \* the slice handed to Instruction::parse
    shape,            \* how the slice was put together (fields of the specifier)
    overflow_checks,  \* build profile: TRUE = debug (overflow panics), FALSE = release (wraps)
    parsed,           \* result of the last Instruction::parse
    rendered,         \* result of the last Display::fmt
    orig,             \* the instruction that was re-encoded
    phase,            \* position of the harness
    \* ---- virtual machine (ex.rs) ----
    r0, r1, r2, r3, r4,   \* State registers (i32)
    mem,              \* State.mem, sparse: bytes not in DOMAIN mem are zero
    memLen,           \* State.mem.len()
    log,              \* annotation of the last logged memory access
    pc,               \* position in the ported program
    stack,            \* return positions of the calls in progress
    entry,            \* registers and memory when the function under study was entered
    lastOp,           \* the last two State::store / State::read calls
    nops,             \* number of store/read calls made so far
    loc               \* locals of run() (goodboy, numbers, collatz_nums, c, branch),
                      \* or of disassemble() (curr, parses made, what stopped the loop)

dvars == <<bytes, shape, overflow_checks, parsed, rendered, orig, phase>>
regs  == <<r0, r1, r2, r3, r4>>
mvars == <<r0, r1, r2, r3, r4, mem, memLen, log, pc, stack, entry, lastOp, nops, loc>>
vars  == <<bytes, shape, overflow_checks, parsed, rendered, orig, phase,
           r0, r1, r2, r3, r4, mem, memLen, log, pc, stack, entry, lastOp, nops, loc>>

(***************************************************************************)
(* Bounds of the model.                                                    *)
(***************************************************************************)
MaxDigits == 1    \* longest run drawn from DigitAlphabet
MaxArb    == 2    \* longest arbitrary byte string

(***************************************************************************)
(* Bytes and 32-bit integers.                                              *)
(***************************************************************************)
Ch(c) ==
    CASE c = "%" -> 37 [] c = "+" -> 43 [] c = "-" -> 45 [] c = "." -> 46
      [] c = "0" -> 48 [] c = "h" -> 104 [] c = "l" -> 108
      [] c = "C" -> 67 [] c = "M" -> 77 [] c = "S" -> 83 [] c = "O" -> 79
      [] c = "X" -> 88 [] c = "V" -> 86 [] c = "N" -> 78 [] c = "L" -> 76
      [] c = "R" -> 82 [] c = "E" -> 69 [] c = "I" -> 73 [] c = "U" -> 85
      [] c = "Z" -> 90

(***************************************************************************)
(* A u32 is kept as two 16-bit limbs, value = hi * 2^16 + lo, so that every *)
(* value of the type and the overflow of its arithmetic can be written.    *)
(***************************************************************************)
Limb == 2^16

U32(h, l) == [hi |-> h, lo |-> l]
U32Zero   == U32(0, 0)
\* a small natural number as a u32
U32Of(n)  == U32(n \div Limb, n % Limb)

\* val * 10 + d: the wrapped result, and whether the exact result left the type
U32MulAdd(v, d) ==
    LET lo == v.lo * 10 + d
        hi == v.hi * 10 + (lo \div Limb)
    IN  [over |-> hi >= Limb, val |-> U32(hi % Limb, lo % Limb)]

\* v divided by 10: quotient and remainder
U32DivTen(v) ==
    LET mid == (v.hi % 10) * Limb + v.lo
    IN  [q |-> U32(v.hi \div 10, mid \div 10), r |-> mid % 10]

\* the decimal digits of v, most significant first ({} of a u32)
RECURSIVE DecDigits(_)
DecDigits(v) ==
    LET d == U32DivTen(v)
    IN  IF d.q = U32Zero THEN <<d.r>> ELSE Append(DecDigits(d.q), d.r)

\* the hexadecimal digits of v, most significant first ({:x} of a u32)
RECURSIVE HexDigitsOf(_)
HexDigitsOf(n) == IF n < 16 THEN <<n>> ELSE Append(HexDigitsOf(n \div 16), n % 16)

HexDigits(v) ==
    IF v.hi = 0 THEN HexDigitsOf(v.lo)
    ELSE LET l == HexDigitsOf(v.lo)
             pad == [i \in 1..(4 - Len(l)) |-> 0]
         IN  HexDigitsOf(v.hi) \o pad \o l

DigitChar(d) ==
    CASE d = 0 -> "0" [] d = 1 -> "1" [] d = 2 -> "2" [] d = 3 -> "3"
      [] d = 4 -> "4" [] d = 5 -> "5" [] d = 6 -> "6" [] d = 7 -> "7"
      [] d = 8 -> "8" [] d = 9 -> "9" [] d = 10 -> "a" [] d = 11 -> "b"
      [] d = 12 -> "c" [] d = 13 -> "d" [] d = 14 -> "e" [] d = 15 -> "f"

RECURSIVE DigitsStr(_)
DigitsStr(ds) == IF ds = <<>> THEN "" ELSE DigitChar(Head(ds)) \o DigitsStr(Tail(ds))

\* u8::is_ascii_digit
IsDigit(b) == b >= Ch("0") /\ b <= Ch("0") + 9

(***************************************************************************)
(* main.rs: Instruction, DestMode, SrcMode, Operation.                     *)
(***************************************************************************)
DestMode  == {"NoPlusMinus", "Plus", "Minus", "ZeroPad"}
SrcMode   == {"HH", "H", "LL", "L", "None"}
Operation == {"Jmp", "Mov", "Add", "Sub", "Mul", "Div", "Mod",
              "ShLeft", "ShRight", "Xor", "And", "Or", "Ret"}

Instruction(d, s, dm, sm, o) ==
    [dest |-> d, src |-> s, dest_mode |-> dm, src_mode |-> sm, op |-> o]

NoInst == Instruction(U32Zero, U32Zero, "NoPlusMinus", "None", "Ret")

Ok(i, rest) == [status |-> "ok", why |-> "", inst |-> i, rest |-> rest]
Panic(why)  == [status |-> "panic", why |-> why, inst |-> NoInst, rest |-> <<>>]

(***************************************************************************)
(* parse_int: a run of ASCII digits as a u32.  `val *= 10` and `val += d`  *)
(* are plain u32 arithmetic: on overflow a build with overflow checks      *)
(* panics and one without wraps modulo 2^32.  Reading mem[0] of an empty   *)
(* slice panics.                                                           *)
(***************************************************************************)
RECURSIVE parse_int_loop(_, _, _)
parse_int_loop_nosub(val, m, checked) ==
    IF m = <<>> THEN [ok |-> FALSE, why |-> "index out of bounds", val |-> U32Zero, rest |-> <<>>]
    ELSE IF IsDigit(m[1]) THEN
        LET v == U32MulAdd(val, m[1])
        IN  IF v.over /\ checked
            THEN [ok |-> FALSE, why |-> "overflow", val |-> U32Zero, rest |-> <<>>]
            ELSE parse_int_loop(v.val, Tail(m), checked)
    ELSE [ok |-> TRUE, why |-> "", val |-> val, rest |-> m]

parse_int_loop(val, m, checked) ==
    IF m = <<>> THEN [ok |-> FALSE, why |-> "index out of bounds", val |-> U32Zero, rest |-> <<>>]
    ELSE IF IsDigit(m[1]) THEN
        LET v == U32MulAdd(val, m[1] - Ch("0"))
        IN  IF v.over /\ checked
            THEN [ok |-> FALSE, why |-> "overflow", val |-> U32Zero, rest |-> <<>>]
            ELSE parse_int_loop(v.val, Tail(m), checked)
    ELSE [ok |-> TRUE, why |-> "", val |-> val, rest |-> m]

parse_int(m, checked) == parse_int_loop(U32Zero, m, checked)

(***************************************************************************)
(* Instruction::parse, piece by piece.                                     *)
(***************************************************************************)
\* the sentinel branch: first byte zero
ParseSentinel_noadvance(m) == Ok(Instruction(U32Zero, U32Zero, "Minus", "LL", "Ret"), m)

ParseSentinel(m) == Ok(Instruction(U32Zero, U32Zero, "Minus", "LL", "Ret"), Tail(m))

\* "parse mode from flags": the slice patterns are tried in order
ParseFlags_nolookahead(m) ==
    IF m # <<>> /\ m[1] = Ch("-") THEN [mode |-> "Minus", rest |-> Tail(m)]
    ELSE IF m # <<>> /\ m[1] = Ch("+") THEN [mode |-> "Plus", rest |-> Tail(m)]
    ELSE IF m # <<>> /\ m[1] = Ch("0") THEN [mode |-> "ZeroPad", rest |-> Tail(m)]
    ELSE [mode |-> "NoPlusMinus", rest |-> m]

ParseFlags(m) ==
    IF m # <<>> /\ m[1] = Ch("-") THEN [mode |-> "Minus", rest |-> Tail(m)]
    ELSE IF m # <<>> /\ m[1] = Ch("+") THEN [mode |-> "Plus", rest |-> Tail(m)]
    ELSE IF Len(m) >= 2 /\ m[1] = Ch("0") /\ m[2] = Ch(".")
         THEN [mode |-> "NoPlusMinus", rest |-> m]
    ELSE IF m # <<>> /\ m[1] = Ch("0") THEN [mode |-> "ZeroPad", rest |-> Tail(m)]
    ELSE [mode |-> "NoPlusMinus", rest |-> m]

\* the length modifier after the precision
ParseSrcMode_swapped(m) ==
    IF Len(m) >= 2 /\ m[1] = Ch("h") /\ m[2] = Ch("h")
         THEN [mode |-> "HH", rest |-> Tail(Tail(m))]
    ELSE IF m # <<>> /\ m[1] = Ch("h") THEN [mode |-> "H", rest |-> Tail(m)]
    ELSE IF Len(m) >= 2 /\ m[1] = Ch("l") /\ m[2] = Ch("l")
         THEN [mode |-> "L", rest |-> Tail(Tail(m))]
    ELSE IF m # <<>> /\ m[1] = Ch("l") THEN [mode |-> "LL", rest |-> Tail(m)]
    ELSE [mode |-> "None", rest |-> m]

ParseSrcMode(m) ==
    IF Len(m) >= 2 /\ m[1] = Ch("h") /\ m[2] = Ch("h")
         THEN [mode |-> "HH", rest |-> Tail(Tail(m))]
    ELSE IF m # <<>> /\ m[1] = Ch("h") THEN [mode |-> "H", rest |-> Tail(m)]
    ELSE IF Len(m) >= 2 /\ m[1] = Ch("l") /\ m[2] = Ch("l")
         THEN [mode |-> "LL", rest |-> Tail(Tail(m))]
    ELSE IF m # <<>> /\ m[1] = Ch("l") THEN [mode |-> "L", rest |-> Tail(m)]
    ELSE [mode |-> "None", rest |-> m]

\* the conversion character table; "" stands for the `_ => panic!()` arm
OperationOf(b) ==
    CASE b = Ch("C") -> "Jmp"    [] b = Ch("M") -> "Mov"
      [] b = Ch("S") -> "Add"    [] b = Ch("O") -> "Sub"
      [] b = Ch("X") -> "Mul"    [] b = Ch("V") -> "Div"
      [] b = Ch("N") -> "Mod"    [] b = Ch("L") -> "ShLeft"
      [] b = Ch("R") -> "ShRight" [] b = Ch("E") -> "Xor"
      [] b = Ch("I") -> "And"    [] b = Ch("U") -> "Or"
      [] OTHER -> ""

\* the optional ".precision[modifier]" part; m is not empty (parse_int stopped on m[1])
ParseSrc(m, checked) ==
    IF m[1] = Ch(".")
    THEN LET i2 == parse_int(Tail(m), checked)
         IN  IF ~i2.ok
             THEN [ok |-> FALSE, why |-> i2.why, val |-> U32Zero, mode |-> "None", rest |-> <<>>]
             ELSE LET sm == ParseSrcMode(i2.rest)
                  IN  [ok |-> TRUE, why |-> "", val |-> i2.val, mode |-> sm.mode, rest |-> sm.rest]
    ELSE [ok |-> TRUE, why |-> "", val |-> U32Zero, mode |-> "None", rest |-> m]

parse(m, checked) ==
    IF m = <<>> THEN Panic("index out of bounds")
    ELSE IF m[1] = 0 THEN ParseSentinel(m)
    ELSE IF m[1] # Ch("%") THEN Panic("assertion failed")
    ELSE
        LET fl == ParseFlags(Tail(m))
            i1 == parse_int(fl.rest, checked)
        IN  IF ~i1.ok THEN Panic(i1.why)
            ELSE
                LET sp == ParseSrc(i1.rest, checked)
                IN  IF ~sp.ok THEN Panic(sp.why)
                    ELSE IF sp.rest = <<>> THEN Panic("index out of bounds")
                    ELSE IF OperationOf(sp.rest[1]) = "" THEN Panic("explicit panic")
                    ELSE Ok(Instruction(i1.val, sp.val, fl.mode, sp.mode,
                                        OperationOf(sp.rest[1])),
                            Tail(sp.rest))

(***************************************************************************)
(* impl Display for Instruction: the text written, or a panic.             *)
(***************************************************************************)
Text(t) == [status |-> "ok", text |-> t]
FmtPanic == [status |-> "panic", text |-> ""]

DecStr(v) == DigitsStr(DecDigits(v))
HexStr(v) == DigitsStr(HexDigits(v))

\* the operator symbol of a non-control operation ("new syntax")
OpSymbol(op) ==
    CASE op = "Mov" -> "="      [] op = "Add" -> "+="  [] op = "Sub" -> "-="
      [] op = "Mul" -> "*="     [] op = "Div" -> "/="  [] op = "Mod" -> "%="
      [] op = "ShLeft" -> "<<=" [] op = "ShRight" -> ">>="
      [] op = "Xor" -> "^="     [] op = "And" -> "&="  [] op = "Or" -> "|="

\* Operation::Jmp: an unconditional or a guarded call
FmtJmp(i) ==
    IF i.dest_mode = "NoPlusMinus"
    THEN Text("stage2_" \o HexStr(i.dest) \o "(&mut s);")
    ELSE LET cmp == CASE i.dest_mode = "Minus"   -> "< 0"
                      [] i.dest_mode = "Plus"    -> "> 0"
                      [] i.dest_mode = "ZeroPad" -> "== 0"
         IN  Text("if s.r" \o DecStr(i.src) \o " " \o cmp \o " { stage2_"
                  \o HexStr(i.dest) \o "(&mut s); }")

\* "write the destination part"; "" stands for the `_ => panic!()` arm
FmtDest(i) ==
    CASE i.dest_mode = "Minus"       -> "[0x" \o HexStr(i.dest) \o "]"
      [] i.dest_mode = "Plus"        -> "[r" \o DecStr(i.dest) \o "]"
      [] i.dest_mode = "NoPlusMinus" -> "s.r" \o DecStr(i.dest)
      [] OTHER -> ""

\* "write the source part"; "" stands for the `_ => panic!()` arm
FmtSrc(i) ==
    CASE i.src_mode = "HH" -> "[0x" \o HexStr(i.src) \o "];"
      [] i.src_mode = "H"  -> "s.mem[s.r" \o DecStr(i.src) \o " as u32 as usize];"
      [] i.src_mode = "L"  -> "s.r" \o DecStr(i.src) \o ";"
      [] i.src_mode = "LL" -> "0x" \o HexStr(i.src) \o ";"
      [] OTHER -> ""

fmt(i) ==
    IF i.op = "Jmp" THEN FmtJmp(i)
    ELSE IF i.op = "Ret" THEN Text("ret")
    ELSE IF FmtDest(i) = "" THEN FmtPanic
    ELSE IF FmtSrc(i) = "" THEN FmtPanic
    ELSE Text(FmtDest(i) \o " " \o OpSymbol(i.op) \o " " \o FmtSrc(i))

(***************************************************************************)
(* The round-trip encoder of the specification's testable properties: it   *)
(* is no part of the sources.  It writes the sentinel byte for Ret and     *)
(* otherwise '%', the flag, the width, the precision part and the          *)
(* conversion character.  The width of a Direct operand 0 is written as    *)
(* "0" before a precision part and left out otherwise, because "%0M" is    *)
(* read as the zero-pad flag.                                              *)
(***************************************************************************)
DecBytes(v) == [k \in 1..Len(DecDigits(v)) |-> Ch("0") + DecDigits(v)[k]]

FlagBytes(dm) ==
    CASE dm = "Minus" -> <<Ch("-")>> [] dm = "Plus" -> <<Ch("+")>>
      [] dm = "ZeroPad" -> <<Ch("0")>> [] dm = "NoPlusMinus" -> <<>>

ModBytes(sm) ==
    CASE sm = "HH" -> <<Ch("h"), Ch("h")>> [] sm = "H" -> <<Ch("h")>>
      [] sm = "LL" -> <<Ch("l"), Ch("l")>> [] sm = "L" -> <<Ch("l")>>
      [] sm = "None" -> <<>>

ConvByte(op) ==
    CASE op = "Jmp" -> Ch("C") [] op = "Mov" -> Ch("M") [] op = "Add" -> Ch("S")
      [] op = "Sub" -> Ch("O") [] op = "Mul" -> Ch("X") [] op = "Div" -> Ch("V")
      [] op = "Mod" -> Ch("N") [] op = "ShLeft" -> Ch("L") [] op = "ShRight" -> Ch("R")
      [] op = "Xor" -> Ch("E") [] op = "And" -> Ch("I") [] op = "Or" -> Ch("U")

encode(i) ==
    IF i.op = "Ret" THEN <<0>>
    ELSE
        LET srcpart == IF i.src_mode = "None" /\ i.src = U32Zero THEN <<>>
                       ELSE <<Ch(".")>> \o DecBytes(i.src) \o ModBytes(i.src_mode)
            width   == IF i.dest_mode = "NoPlusMinus" /\ i.dest = U32Zero /\ srcpart = <<>>
                       THEN <<>> ELSE DecBytes(i.dest)
        IN  <<Ch("%")>> \o FlagBytes(i.dest_mode) \o width \o srcpart \o <<ConvByte(i.op)>>

(***************************************************************************)
(* The slices the decoder is run on.                                       *)
(***************************************************************************)
DigitAlphabet == {Ch("0"), Ch("0") + 5}

Runs == UNION {[1..k -> DigitAlphabet] : k \in 0..MaxDigits}

\* u32::MAX and u32::MAX + 1 in decimal
BigRuns == {[k \in 1..10 |-> Ch("0") + <<4, 2, 9, 4, 9, 6, 7, 2, 9, 5>>[k]],
            [k \in 1..10 |-> Ch("0") + <<4, 2, 9, 4, 9, 6, 7, 2, 9, 6>>[k]]}

\* the operands of the documented example "%+3.2hhX"
ExampleRuns == {<<Ch("0") + 3>>, <<Ch("0") + 2>>}

DigitRuns == Runs \cup BigRuns \cup ExampleRuns

Flags == {<<>>, <<Ch("-")>>, <<Ch("+")>>, <<Ch("0")>>}
Mods  == {<<>>, <<Ch("h")>>, <<Ch("h"), Ch("h")>>, <<Ch("l")>>, <<Ch("l"), Ch("l")>>}
Convs == {Ch("C"), Ch("M"), Ch("S"), Ch("O"), Ch("X"), Ch("V"), Ch("N"),
          Ch("L"), Ch("R"), Ch("E"), Ch("I"), Ch("U")}
Trails == {<<>>, <<Ch("%")>>}

Shapes ==
    {[kind |-> "spec", flag |-> f, d1 |-> a, dot |-> FALSE, d2 |-> <<>>, mod |-> <<>>,
      conv |-> c, trail |-> t] :
        f \in Flags, a \in DigitRuns, c \in Convs \cup {Ch("Z")}, t \in Trails}
    \cup
    {[kind |-> "spec", flag |-> f, d1 |-> a, dot |-> TRUE, d2 |-> b, mod |-> md,
      conv |-> c, trail |-> t] :
        f \in Flags, a \in DigitRuns, b \in DigitRuns, md \in Mods,
        c \in Convs \cup {Ch("Z")}, t \in Trails}

\* the specifier without what follows it
Specifier(sh) ==
    <<Ch("%")>> \o sh.flag \o sh.d1
        \o (IF sh.dot THEN <<Ch(".")>> \o sh.d2 \o sh.mod ELSE <<>>)
        \o <<sh.conv>>

BytesOf(sh) == Specifier(sh) \o sh.trail

\* slices that end before the conversion character
Truncated ==
    UNION {{SubSeq(Specifier(sh), 1, k) : k \in 0..(Len(Specifier(sh)) - 1)} :
               sh \in {x \in Shapes : x.trail = <<>>}}

ArbAlphabet == {0, Ch("%"), Ch("0") + 5, Ch("M"), 200}
Arbitrary == UNION {[1..k -> ArbAlphabet] : k \in 1..MaxArb}

NoShape(kind) ==
    [kind |-> kind, flag |-> <<>>, d1 |-> <<>>, dot |-> FALSE, d2 |-> <<>>, mod |-> <<>>,
     conv |-> 0, trail |-> <<>>]

NoResult == [status |-> "none", why |-> "", inst |-> NoInst, rest |-> <<>>]
NoText   == [status |-> "none", text |-> ""]

(***************************************************************************)
(* The virtual machine at rest (the decoder runs without it).              *)
(***************************************************************************)
MachineIdle ==
    /\ r0 = 0 /\ r1 = 0 /\ r2 = 0 /\ r3 = 0 /\ r4 = 0
    /\ mem = <<>> /\ memLen = 0 /\ log = ""
    /\ pc = "idle" /\ stack = <<>> /\ entry = <<>> /\ lastOp = <<>> /\ nops = 0
    /\ loc = <<>>

(***************************************************************************)
(* The decoder harness: parse a slice, then render the instruction, or     *)
(* re-encode it and parse the encoding.                                    *)
(***************************************************************************)
InitDecoder ==
    /\ overflow_checks \in BOOLEAN
    /\ \/ /\ shape \in Shapes
          /\ bytes = BytesOf(shape)
       \/ /\ bytes \in Truncated
          /\ shape = NoShape("cut")
       \/ /\ bytes \in Arbitrary
          /\ shape = NoShape("arb")
    /\ parsed = NoResult
    /\ rendered = NoText
    /\ orig = NoInst
    /\ phase = "input"
    /\ MachineIdle

Parse ==
    /\ phase \in {"input", "encoded"}
    /\ parsed' = parse(bytes, overflow_checks)
    /\ phase' = IF phase = "input" THEN "parsed" ELSE "reparsed"
    /\ UNCHANGED <<bytes, shape, overflow_checks, rendered, orig>>
    /\ UNCHANGED mvars

Render ==
    /\ phase = "parsed"
    /\ parsed.status = "ok"
    /\ rendered' = fmt(parsed.inst)
    /\ phase' = "rendered"
    /\ UNCHANGED <<bytes, shape, overflow_checks, parsed, orig>>
    /\ UNCHANGED mvars

Encode ==
    /\ phase = "parsed"
    /\ parsed.status = "ok"
    /\ orig' = parsed.inst
    /\ bytes' = encode(parsed.inst)
    /\ parsed' = NoResult
    /\ phase' = "encoded"
    /\ UNCHANGED <<shape, overflow_checks, rendered>>
    /\ UNCHANGED mvars

NextDecoder == Parse \/ Render \/ Encode

SpecDecoder == InitDecoder /\ [][NextDecoder]_vars

(***************************************************************************)
(* ex.rs: State.  Registers are i32.  wrapping_add, wrapping_sub and       *)
(* wrapping_mul are computed on 16-bit halves, value = Hi16 * 2^16 + Lo16  *)
(* with Hi16 signed.  The plain operators of the source (+, -, *, +=, /=,  *)
(* %=) are written as exact arithmetic: they leave the i32 range in no     *)
(* reachable state (RegsInI32), so neither an overflow panic nor a wrapped *)
(* result occurs.                                                          *)
(***************************************************************************)
I32Max == 2147483647
I32Min == -I32Max - 1

InI32(x) == x >= I32Min /\ x <= I32Max

Hi16(a) == a \div Limb
Lo16(a) == a % Limb
\* the i32 with the given halves; h is taken modulo 2^16
FromHalves(h, l) == (((h + Limb \div 2) % Limb) - Limb \div 2) * Limb + l

wrapping_add(a, b) ==
    LET l == Lo16(a) + Lo16(b)
    IN  FromHalves(Hi16(a) + Hi16(b) + (l \div Limb), l % Limb)

wrapping_sub(a, b) ==
    LET l == Lo16(a) - Lo16(b)
    IN  FromHalves(Hi16(a) - Hi16(b) + (l \div Limb), l % Limb)

wrapping_mul(a, b) ==
    LET al == Lo16(a)
        bl == Lo16(b)
        p  == al * (bl % 256)
        q  == al * (bl \div 256)
        lo == (q % 256) * 256 + p
        ah == Hi16(a) % Limb
        bh == Hi16(b) % Limb
        cross == ((ah * (bl % 256)) % Limb)
                 + (((ah * (bl \div 256)) % 256) * 256)
                 + (((al % 256) * bh) % Limb)
                 + ((((al \div 256) * bh) % 256) * 256)
    IN  FromHalves((lo \div Limb) + (q \div 256) + cross, lo % Limb)

\* bitwise operators on naturals below 2^16, and on i32 by halves
RECURSIVE BitXor(_, _)
BitXor(x, y) ==
    IF x = 0 THEN y ELSE IF y = 0 THEN x
    ELSE ((x + y) % 2) + 2 * BitXor(x \div 2, y \div 2)

RECURSIVE BitAnd(_, _)
BitAnd(x, y) ==
    IF x = 0 \/ y = 0 THEN 0
    ELSE ((x % 2) * (y % 2)) + 2 * BitAnd(x \div 2, y \div 2)

RECURSIVE BitOr(_, _)
BitOr(x, y) ==
    IF x = 0 THEN y ELSE IF y = 0 THEN x
    ELSE (IF x % 2 = 1 \/ y % 2 = 1 THEN 1 ELSE 0) + 2 * BitOr(x \div 2, y \div 2)

Xor32(a, b) == FromHalves(BitXor(Hi16(a) % Limb, Hi16(b) % Limb), BitXor(Lo16(a), Lo16(b)))
And32(a, b) == FromHalves(BitAnd(Hi16(a) % Limb, Hi16(b) % Limb), BitAnd(Lo16(a), Lo16(b)))
Or32(a, b)  == FromHalves(BitOr(Hi16(a) % Limb, Hi16(b) % Limb), BitOr(Lo16(a), Lo16(b)))

\* i32 % and /: the quotient is rounded toward zero (operands here: b > 0)
Rem32(a, b) == IF a >= 0 THEN a % b ELSE -((-a) % b)
Div32(a, b) == IF a >= 0 THEN a \div b ELSE -((-a) \div b)

\* i32::to_le_bytes
to_be_bytes(v) ==
    <<(Hi16(v) % Limb) \div 256, (Hi16(v) % Limb) % 256, Lo16(v) \div 256, Lo16(v) % 256>>

to_le_bytes(v) ==
    <<Lo16(v) % 256, Lo16(v) \div 256, (Hi16(v) % Limb) % 256, (Hi16(v) % Limb) \div 256>>

\* i32::from_le_bytes
from_le_bytes(b) == FromHalves(b[3] + 256 * b[4], b[1] + 256 * b[2])

\* `dest as u32 as usize` with the bounds check of the slice mem[i..i + 4]: a
\* negative address is an index of 2^31 or more, beyond any Vec<u8> modelled here
InBounds(len, a) == a >= 0 /\ a <= len - 4

\* a byte of the memory; bytes the sparse map does not hold are zero
ByteAt(m, i) == IF i \in DOMAIN m THEN m[i] ELSE 0

\* mem[i..i + 4].copy_from_slice(&src.to_le_bytes())
StoreMem(m, i, v) ==
    [j \in (DOMAIN m) \cup (i..(i + 3)) |->
        IF j \in i..(i + 3) THEN to_le_bytes(v)[j - i + 1] ELSE m[j]]

\* i32::from_le_bytes of mem[i..i + 4]
ReadMem(m, i) ==
    from_le_bytes(<<ByteAt(m, i), ByteAt(m, i + 1), ByteAt(m, i + 2), ByteAt(m, i + 3)>>)

\* the annotation logged with a memory access
log_index(index) ==
    IF index >= 4096 /\ index <= 4352 THEN "[user input]"
    ELSE IF index >= 4496 /\ index <= 4752 THEN "[first pass]"
    ELSE IF index >= 4864 /\ index <= 5120 THEN "[RNG numbers]"
    ELSE IF index >= 6144 /\ index <= 6400 THEN "[flag output]"
    ELSE ""

DecoderIdle ==
    /\ bytes = <<>> /\ shape = NoShape("none") /\ overflow_checks = FALSE
    /\ parsed = NoResult /\ rendered = NoText /\ orig = NoInst /\ phase = "idle"

(***************************************************************************)
(* State::store and State::read called on a small memory, in bounds and    *)
(* out of bounds.                                                          *)
(***************************************************************************)
MemLen == 6     \* mem.len() of the small memory
MaxOps == 3     \* number of store/read calls in a run

MemAddrs == (-1)..(MemLen - 3)
\* 0x12345678, -1, i32::MIN, 0x00ff0080
MemVals  == {305419896, -1, I32Min, 16711808}

InitMem ==
    /\ DecoderIdle
    /\ r0 = 11 /\ r1 = -22 /\ r2 = 33 /\ r3 = I32Min /\ r4 = I32Max
    /\ memLen = MemLen
    /\ mem = [i \in 0..(MemLen - 1) |-> (i + 1) * 17]
    /\ log = "" /\ pc = "mem" /\ stack = <<>> /\ entry = <<>> /\ loc = <<>>
    /\ lastOp = <<>> /\ nops = 0

Remember(op) == IF lastOp = <<>> THEN <<op>> ELSE <<op, lastOp[1]>>

Store(dest, src) ==
    /\ pc = "mem"
    /\ nops < MaxOps
    /\ nops' = nops + 1
    /\ log' = log_index(dest)
    /\ IF InBounds(memLen, dest)
       THEN /\ mem' = StoreMem(mem, dest, src)
            /\ pc' = pc
       ELSE /\ mem' = mem
            /\ pc' = "panic"
    /\ lastOp' = Remember([kind |-> "store", addr |-> dest, val |-> src,
                           ok |-> InBounds(memLen, dest), before |-> mem])
    /\ UNCHANGED <<r0, r1, r2, r3, r4, memLen, stack, entry, loc>>
    /\ UNCHANGED dvars

Read(src) ==
    /\ pc = "mem"
    /\ nops < MaxOps
    /\ nops' = nops + 1
    /\ log' = log_index(src)
    /\ pc' = IF InBounds(memLen, src) THEN pc ELSE "panic"
    /\ lastOp' = Remember([kind |-> "read", addr |-> src,
                           val |-> IF InBounds(memLen, src) THEN ReadMem(mem, src) ELSE 0,
                           ok |-> InBounds(memLen, src), before |-> mem])
    /\ UNCHANGED <<r0, r1, r2, r3, r4, mem, memLen, stack, entry, loc>>
    /\ UNCHANGED dvars

NextMem ==
    \/ \E a \in MemAddrs, v \in MemVals : Store(a, v)
    \/ \E a \in MemAddrs : Read(a)

SpecMem == InitMem /\ [][NextMem]_vars

(***************************************************************************)
(* ex.rs: the ported program.  A call pushes the position to come back to; *)
(* a return pops it ("done" when the function under study returns).        *)
(***************************************************************************)
PadLen    == 8000    \* s.mem.extend(&[0; 8000])
ImageLen  == 1788    \* the image holds at least its 0x6fc bytes of program
BufAddr   == 5000    \* 0x1388, generate_buffer's output
GenLo     == 13200   \* 0x3390
GenHi     == 13600   \* 0x3520
InputLen  == 28      \* 0x1c
InputAddr == 4096    \* 0x1000, the user input
TableAddr == 4920    \* 0x1338, the table process_input_byte reads
PassAddr  == 4500    \* 0x1194, the first pass buffer
FlagAddr  == 6144    \* 0x1800, the flag output

RetTo == IF stack = <<>> THEN "done" ELSE Head(stack)
Pop   == IF stack = <<>> THEN <<>> ELSE Tail(stack)
Push(l) == <<l>> \o stack

Snapshot == [r0 |-> r0, r1 |-> r1, r2 |-> r2, r3 |-> r3, r4 |-> r4, mem |-> mem]

\* ---- stage2_105: one pass of the loop ----
Stage2_105 ==
    /\ pc = "stage2_105"
    /\ IF r2 = 0
       THEN /\ pc' = "panic"
            /\ UNCHANGED <<r1, r2, r3, stack>>
       ELSE LET rem == Rem32(r0, r2)
                n2  == wrapping_add(r2, 1)
                n3  == wrapping_sub(wrapping_sub(wrapping_mul(n2, n2), r0), 1)
            IN  /\ r1' = IF rem = 0 THEN 0 ELSE r1
                /\ r2' = n2
                /\ r3' = n3
                /\ pc' = IF n3 >= 0 THEN RetTo ELSE "stage2_105"
                /\ stack' = IF n3 >= 0 THEN Pop ELSE stack
    /\ UNCHANGED <<r0, r4, mem, memLen, log, entry, lastOp, nops, loc>>
    /\ UNCHANGED dvars

\* ---- generate_buffer ----
GenerateBuffer ==
    /\ pc = "generate_buffer"
    /\ r4' = BufAddr
    /\ r0' = GenLo
    /\ pc' = "gen_loop"
    /\ UNCHANGED <<r1, r2, r3, mem, memLen, log, stack, entry, lastOp, nops, loc>>
    /\ UNCHANGED dvars

\* while s.r0 < 0x3520 { s.r1 = 1; s.r2 = 2; stage2_105(s); ...
GenLoop ==
    /\ pc = "gen_loop"
    /\ IF r0 < GenHi
       THEN /\ r1' = 1
            /\ r2' = 2
            /\ pc' = "stage2_105"
            /\ stack' = Push("gen_after")
       ELSE /\ pc' = RetTo
            /\ stack' = Pop
            /\ UNCHANGED <<r1, r2>>
    /\ UNCHANGED <<r0, r3, r4, mem, memLen, log, entry, lastOp, nops, loc>>
    /\ UNCHANGED dvars

\* ... if s.r1 > 0 { s.store(s.r4, s.r0); s.r4 = s.r4.wrapping_add(2); } s.r0 += 1; }
GenAfter_step4 ==
    /\ pc = "gen_after"
    /\ IF r1 > 0 /\ ~InBounds(memLen, r4)
       THEN /\ pc' = "panic"
            /\ log' = log_index(r4)
            /\ UNCHANGED <<r0, r4, mem>>
       ELSE /\ mem' = IF r1 > 0 THEN StoreMem(mem, r4, r0) ELSE mem
            /\ log' = IF r1 > 0 THEN log_index(r4) ELSE log
            /\ r4' = IF r1 > 0 THEN wrapping_add(r4, 4) ELSE r4
            /\ r0' = r0 + 1
            /\ pc' = "gen_loop"
    /\ UNCHANGED <<r1, r2, r3, memLen, stack, entry, lastOp, nops, loc>>
    /\ UNCHANGED dvars

GenAfter ==
    /\ pc = "gen_after"
    /\ IF r1 > 0 /\ ~InBounds(memLen, r4)
       THEN /\ pc' = "panic"
            /\ log' = log_index(r4)
            /\ UNCHANGED <<r0, r4, mem>>
       ELSE /\ mem' = IF r1 > 0 THEN StoreMem(mem, r4, r0) ELSE mem
            /\ log' = IF r1 > 0 THEN log_index(r4) ELSE log
            /\ r4' = IF r1 > 0 THEN wrapping_add(r4, 2) ELSE r4
            /\ r0' = r0 + 1
            /\ pc' = "gen_loop"
    /\ UNCHANGED <<r1, r2, r3, memLen, stack, entry, lastOp, nops, loc>>
    /\ UNCHANGED dvars

\* ---- collatz and collatz_helper ----
Collatz ==
    /\ pc = "collatz"
    /\ r1' = r0 - 1
    /\ IF r0 - 1 = 0
       THEN /\ r0' = 0
            /\ pc' = RetTo
            /\ stack' = Pop
       ELSE /\ r0' = r0
            /\ pc' = "collatz_helper"
            /\ stack' = Push("collatz_end")
    /\ UNCHANGED <<r2, r3, r4, mem, memLen, log, entry, lastOp, nops, loc>>
    /\ UNCHANGED dvars

\* collatz returns once collatz_helper has
CollatzEnd ==
    /\ pc = "collatz_end"
    /\ pc' = RetTo
    /\ stack' = Pop
    /\ UNCHANGED <<r0, r1, r2, r3, r4, mem, memLen, log, entry, lastOp, nops, loc>>
    /\ UNCHANGED dvars

CollatzHelper ==
    /\ pc = "collatz_helper"
    /\ r1' = Rem32(r0, 2)
    /\ r0' = IF Rem32(r0, 2) = 0 THEN Div32(r0, 2)
             ELSE IF Rem32(r0, 2) > 0 THEN r0 * 3 + 1
             ELSE r0
    /\ pc' = "collatz"
    /\ stack' = Push("collatz_helper_after")
    /\ UNCHANGED <<r2, r3, r4, mem, memLen, log, entry, lastOp, nops, loc>>
    /\ UNCHANGED dvars

\* collatz(s); s.r0 += 1;
CollatzHelperAfter_noinc ==
    /\ pc = "collatz_helper_after"
    /\ r0' = r0
    /\ pc' = RetTo
    /\ stack' = Pop
    /\ UNCHANGED <<r1, r2, r3, r4, mem, memLen, log, entry, lastOp, nops, loc>>
    /\ UNCHANGED dvars

CollatzHelperAfter ==
    /\ pc = "collatz_helper_after"
    /\ r0' = r0 + 1
    /\ pc' = RetTo
    /\ stack' = Pop
    /\ UNCHANGED <<r1, r2, r3, r4, mem, memLen, log, entry, lastOp, nops, loc>>
    /\ UNCHANGED dvars

(***************************************************************************)
(* generate_buffer on its own, entered with different registers and        *)
(* memories.                                                               *)
(***************************************************************************)
\* bytes around and inside the region generate_buffer writes
GarbageMem == [j \in (BufAddr - 4)..(BufAddr + 90) |-> (j % 251) + 1]

GenStarts ==
    {[r |-> <<0, 0, 0, 0, 0>>, m |-> <<>>],
     [r |-> <<-7, 5, 0, I32Max, I32Min>>, m |-> GarbageMem],
     [r |-> <<GenHi, -1, 1, 2, BufAddr + 10>>, m |-> <<>>]}

InitGen ==
    /\ DecoderIdle
    /\ \E g \in GenStarts :
          /\ r0 = g.r[1] /\ r1 = g.r[2] /\ r2 = g.r[3] /\ r3 = g.r[4] /\ r4 = g.r[5]
          /\ mem = g.m
          /\ entry = [r0 |-> g.r[1], r1 |-> g.r[2], r2 |-> g.r[3], r3 |-> g.r[4],
                      r4 |-> g.r[5], mem |-> g.m]
    /\ memLen = ImageLen + PadLen
    /\ log = "" /\ pc = "generate_buffer" /\ stack = <<>> /\ loc = <<>>
    /\ lastOp = <<>> /\ nops = 0

NextGen == GenerateBuffer \/ GenLoop \/ Stage2_105 \/ GenAfter

SpecGen == InitGen /\ [][NextGen]_vars

(***************************************************************************)
(* collatz on its own, entered as process_input_byte and run() enter it:   *)
(* r0 = input index + 1, r2 the saved index, r4 the byte being mixed.      *)
(***************************************************************************)
InitCollatz ==
    /\ DecoderIdle
    /\ r0 \in 1..InputLen
    /\ r1 \in {0, 9}
    /\ r2 = r0
    /\ r3 = -5
    /\ r4 \in {65, 255}
    /\ mem = [j \in InputAddr..(InputAddr + 3) |-> 84]
    /\ entry = [r0 |-> r0, r1 |-> r1, r2 |-> r2, r3 |-> r3, r4 |-> r4, mem |-> mem]
    /\ memLen = ImageLen + PadLen
    /\ log = "" /\ pc = "collatz" /\ stack = <<>> /\ loc = <<>>
    /\ lastOp = <<>> /\ nops = 0

NextCollatz == Collatz \/ CollatzHelper \/ CollatzEnd \/ CollatzHelperAfter

SpecCollatz == InitCollatz /\ [][NextCollatz]_vars /\ WF_vars(NextCollatz)

(***************************************************************************)
(* run(): the solver block, then the original program stage2_main.         *)
(***************************************************************************)
\* the addends of the seven words of buffer_check and buffer_create:
\* 0x51eddb21 + 0x648c4a88 + 0x4355a74c; 0x32333645 + 0x58728e64; 0x6f57a0a3; 0x22d9bbcc + 0x569fcabc; 0xd531548; 0x74c2318e + 0x7233f6a3; 0x6d12a1c5 + 0x6c3422b6 + 0xf213d9a
CheckAddends ==
    <<<<1374542625, 1686915720, 1129686860>>,
      <<842217029, 1483902564>>,
      <<1868013731>>,
      <<584694732, 1453312700>>,
      <<223548744>>,
      <<1958883726, 1916008099>>,
      <<1829937605, 1815356086, 253836698>>>>

\* the addends of the seven words stage2_28d xors the input chain with:
\* 0x3278f102; 0x560aa747; 0x3e6fd176; 0x156d86fa + 0x66c93320; 0xe5dbc23; 0xd3f894c; 0x324fe212
FlagAddends ==
    <<<<846786818>>,
      <<1443538759>>,
      <<1047515510>>,
      <<359499514, 1724461856>>,
      <<241024035>>,
      <<222267724>>,
      <<844096018>>>>

\* s.r2 = c1; s.r2 = s.r2.wrapping_add(c2); ...   (0.wrapping_add(c1) = c1)
RECURSIVE WrappingSum(_)
WrappingSum(cs) ==
    IF cs = <<>> THEN 0 ELSE wrapping_add(WrappingSum(SubSeq(cs, 1, Len(cs) - 1)), cs[Len(cs)])

CheckWord(k) == WrappingSum(CheckAddends[k])
FlagWord(k)  == WrappingSum(FlagAddends[k])

\* mem[a..a + n].to_vec()
Slice(m, a, n) == [k \in 1..n |-> ByteAt(m, a + k - 1)]

\* mem[a..a + bs.len()].copy_from_slice(bs)
CopyIn(m, a, bs) ==
    [j \in (DOMAIN m) \cup (a..(a + Len(bs) - 1)) |->
        IF j \in a..(a + Len(bs) - 1) THEN bs[j - a + 1] ELSE m[j]]

\* String::from_utf8(..).is_ok()
RECURSIVE Utf8Valid(_)
Utf8Cont(b) == b >= 128 /\ b <= 191
Utf8Valid(bs) ==
    IF bs = <<>> THEN TRUE
    ELSE LET b == bs[1]
             n == Len(bs)
         IN  IF b < 128 THEN Utf8Valid(Tail(bs))
             ELSE IF b >= 194 /\ b <= 223
                  THEN n >= 2 /\ Utf8Cont(bs[2]) /\ Utf8Valid(SubSeq(bs, 3, n))
             ELSE IF b >= 224 /\ b <= 239
                  THEN /\ n >= 3
                       /\ Utf8Cont(bs[2]) /\ Utf8Cont(bs[3])
                       /\ (b = 224 => bs[2] >= 160)
                       /\ (b = 237 => bs[2] <= 159)
                       /\ Utf8Valid(SubSeq(bs, 4, n))
             ELSE IF b >= 240 /\ b <= 244
                  THEN /\ n >= 4
                       /\ Utf8Cont(bs[2]) /\ Utf8Cont(bs[3]) /\ Utf8Cont(bs[4])
                       /\ (b = 240 => bs[2] >= 144)
                       /\ (b = 244 => bs[2] <= 143)
                       /\ Utf8Valid(SubSeq(bs, 5, n))
             ELSE FALSE

\* the memory after buffer_create's stores of word 1..k
RECURSIVE BufferCreateMem(_, _)
BufferCreateMem(m, k) ==
    IF k = 0 THEN m
    ELSE StoreMem(BufferCreateMem(m, k - 1), PassAddr + 4 * (k - 1), CheckWord(k))

\* r0 after buffer_check has or-ed in word 1..k
RECURSIVE BufferCheckR0(_, _)
BufferCheckR0(m, k) ==
    IF k = 0 THEN 0
    ELSE Or32(BufferCheckR0(m, k - 1),
              Xor32(ReadMem(m, PassAddr + 4 * (k - 1)), CheckWord(k)))

\* stage2_28d after word 1..k: the chained r0 and the memory
RECURSIVE FlagChain(_, _)
FlagChain(m, k) ==
    IF k = 0 THEN [r0 |-> 123456789, mem |-> m]
    ELSE LET p  == FlagChain(m, k - 1)
             x  == Xor32(p.r0, ReadMem(p.mem, InputAddr + 4 * (k - 1)))
         IN  [r0 |-> x, mem |-> StoreMem(p.mem, FlagAddr + 4 * (k - 1), Xor32(FlagWord(k), x))]

Call(target, back) == pc' = target /\ stack' = Push(back)
Return == pc' = RetTo /\ stack' = Pop

InitRun ==
    /\ DecoderIdle
    /\ r0 = 0 /\ r1 = 0 /\ r2 = 0 /\ r3 = 0 /\ r4 = 0
    /\ mem = <<>>
    /\ memLen = ImageLen + PadLen
    /\ log = "" /\ pc = "run" /\ stack = <<>>
    /\ entry = [r0 |-> 0, r1 |-> 0, r2 |-> 0, r3 |-> 0, r4 |-> 0, mem |-> <<>>]
    /\ loc = [goodboy |-> <<>>, numbers |-> <<>>, collatz_nums |-> <<>>, c |-> 0,
              winning_bytes |-> <<>>, branch |-> "", flag |-> <<>>]
    /\ lastOp = <<>> /\ nops = 0

\* buffer_create(&mut s);
RunStart ==
    /\ pc = "run"
    /\ Call("buffer_create", "run_goodboy")
    /\ UNCHANGED <<r0, r1, r2, r3, r4, mem, memLen, log, entry, lastOp, nops, loc>>
    /\ UNCHANGED dvars

BufferCreate ==
    /\ pc = "buffer_create"
    /\ IF InBounds(memLen, PassAddr + 24)
       THEN /\ mem' = BufferCreateMem(mem, 7)
            /\ r1' = wrapping_add(24, PassAddr)
            /\ r2' = CheckWord(7)
            /\ log' = log_index(PassAddr + 24)
            /\ Return
       ELSE /\ pc' = "panic"
            /\ UNCHANGED <<r1, r2, mem, log, stack>>
    /\ UNCHANGED <<r0, r3, r4, memLen, entry, lastOp, nops, loc>>
    /\ UNCHANGED dvars

\* let goodboy = s.mem[0x1194..0x1194+0x1c].to_vec(); generate_buffer(&mut s);
RunGoodboy ==
    /\ pc = "run_goodboy"
    /\ loc' = [loc EXCEPT !.goodboy = Slice(mem, PassAddr, InputLen)]
    /\ Call("generate_buffer", "run_numbers")
    /\ UNCHANGED <<r0, r1, r2, r3, r4, mem, memLen, log, entry, lastOp, nops>>
    /\ UNCHANGED dvars

\* let numbers = s.mem[0x1388..0x1388+38*2].to_vec();
RunNumbers ==
    /\ pc = "run_numbers"
    /\ loc' = [loc EXCEPT !.numbers = Slice(mem, BufAddr, 38 * 2), !.c = 0]
    /\ pc' = "run_collatz_loop"
    /\ UNCHANGED <<r0, r1, r2, r3, r4, mem, memLen, log, stack, entry, lastOp, nops>>
    /\ UNCHANGED dvars

\* for c in 0..0x1c { s.r0 = c + 1; collatz(&mut s); ...
RunCollatzLoop ==
    /\ pc = "run_collatz_loop"
    /\ IF loc.c < InputLen
       THEN /\ r0' = loc.c + 1
            /\ Call("collatz", "run_collatz_after")
       ELSE /\ pc' = "run_winning"
            /\ UNCHANGED <<r0, stack>>
    /\ UNCHANGED <<r1, r2, r3, r4, mem, memLen, log, entry, lastOp, nops, loc>>
    /\ UNCHANGED dvars

\* ... collatz_nums.push(s.r0 as u8); }
RunCollatzAfter ==
    /\ pc = "run_collatz_after"
    /\ loc' = [loc EXCEPT !.collatz_nums = Append(@, r0 % 256), !.c = @ + 1]
    /\ pc' = "run_collatz_loop"
    /\ UNCHANGED <<r0, r1, r2, r3, r4, mem, memLen, log, stack, entry, lastOp, nops>>
    /\ UNCHANGED dvars

\* goodboy[ii].wrapping_sub(collatz_nums[ii]) ^ numbers[ii*2]
WinningByte(l, ii) ==
    BitXor((l.goodboy[ii + 1] - l.collatz_nums[ii + 1]) % 256, l.numbers[ii * 2 + 1])

\* the winning input is put at 0x1000 and printed; then stage2_main(&mut s);
RunWinning ==
    /\ pc = "run_winning"
    /\ LET w == [k \in 1..InputLen |-> WinningByte(loc, k - 1)]
           m == CopyIn(mem, InputAddr, w)
       IN  /\ loc' = [loc EXCEPT !.winning_bytes = w]
           /\ mem' = m
           /\ IF Utf8Valid(Slice(m, InputAddr, InputLen))
              THEN Call("stage2_main", "run_flag")
              ELSE pc' = "panic" /\ stack' = stack
    /\ UNCHANGED <<r0, r1, r2, r3, r4, memLen, log, entry, lastOp, nops>>
    /\ UNCHANGED dvars

\* ---- stage2_main ----
Stage2Main ==
    /\ pc = "stage2_main"
    /\ Call("generate_buffer", "main_after_gen")
    /\ UNCHANGED <<r0, r1, r2, r3, r4, mem, memLen, log, entry, lastOp, nops, loc>>
    /\ UNCHANGED dvars

\* s.r0 = 0x0; read_input_byte(s);
MainAfterGen ==
    /\ pc = "main_after_gen"
    /\ r0' = 0
    /\ Call("read_input_byte", "main_after_read")
    /\ UNCHANGED <<r1, r2, r3, r4, mem, memLen, log, entry, lastOp, nops, loc>>
    /\ UNCHANGED dvars

\* buffer_check(s);
MainAfterRead ==
    /\ pc = "main_after_read"
    /\ Call("buffer_check", "main_branch")
    /\ UNCHANGED <<r0, r1, r2, r3, r4, mem, memLen, log, entry, lastOp, nops, loc>>
    /\ UNCHANGED dvars

\* if s.r0 == 0 { stage2_28d(s) } else { println!("cheating"); stage2_28d(s) }
MainBranch ==
    /\ pc = "main_branch"
    /\ loc' = [loc EXCEPT !.branch = IF r0 = 0 THEN "print flag" ELSE "cheating"]
    /\ Call("stage2_28d", "main_end")
    /\ UNCHANGED <<r0, r1, r2, r3, r4, mem, memLen, log, entry, lastOp, nops>>
    /\ UNCHANGED dvars

MainEnd ==
    /\ pc = "main_end"
    /\ Return
    /\ UNCHANGED <<r0, r1, r2, r3, r4, mem, memLen, log, entry, lastOp, nops, loc>>
    /\ UNCHANGED dvars

\* let s = String::from_utf8(s.mem[0x1800..0x1820].to_vec()).unwrap();
RunFlag ==
    /\ pc = "run_flag"
    /\ loc' = [loc EXCEPT !.flag = Slice(mem, FlagAddr, 32)]
    /\ pc' = IF Utf8Valid(Slice(mem, FlagAddr, 32)) THEN "done" ELSE "panic"
    /\ UNCHANGED <<r0, r1, r2, r3, r4, mem, memLen, log, stack, entry, lastOp, nops>>
    /\ UNCHANGED dvars

\* ---- read_input_byte ----
ReadInputByte ==
    /\ pc = "read_input_byte"
    /\ r2' = InputAddr + r0
    /\ log' = log_index(InputAddr + r0)
    /\ IF InBounds(memLen, InputAddr + r0)
       THEN LET b == And32(ReadMem(mem, InputAddr + r0), 255)
            IN  /\ r4' = b
                /\ IF b > 0 THEN Call("process_input_byte", "read_input_byte_end")
                   ELSE Return
       ELSE /\ pc' = "panic"
            /\ UNCHANGED <<r4, stack>>
    /\ UNCHANGED <<r0, r1, r3, mem, memLen, entry, lastOp, nops, loc>>
    /\ UNCHANGED dvars

ReadInputByteEnd ==
    /\ pc = "read_input_byte_end"
    /\ Return
    /\ UNCHANGED <<r0, r1, r2, r3, r4, mem, memLen, log, entry, lastOp, nops, loc>>
    /\ UNCHANGED dvars

\* ---- process_input_byte, up to the call of collatz ----
ProcessInputByte ==
    /\ pc = "process_input_byte"
    /\ log' = log_index(r0 * 2 + TableAddr)
    /\ IF InBounds(memLen, r0 * 2 + TableAddr)
       THEN LET t == And32(ReadMem(mem, r0 * 2 + TableAddr), 255)
            IN  /\ r4' = Xor32(r4, t)
                /\ r0' = r0 + 1
                /\ r2' = r0 + 1
                /\ Call("collatz", "process_input_byte_mix")
       ELSE /\ pc' = "panic"
            /\ UNCHANGED <<r0, r2, r4, stack>>
    /\ UNCHANGED <<r1, r3, mem, memLen, entry, lastOp, nops, loc>>
    /\ UNCHANGED dvars

\* ---- process_input_byte, after collatz: mix, store, read the next byte ----
ProcessInputByteMix ==
    /\ pc = "process_input_byte_mix"
    /\ LET b == And32(wrapping_add(r4, r0), 255)
           a == wrapping_add(wrapping_sub(r2, 1), PassAddr)
       IN  /\ r4' = b
           /\ r0' = r2
           /\ r2' = a
           /\ log' = log_index(a)
           /\ IF InBounds(memLen, a)
              THEN /\ mem' = StoreMem(mem, a, b)
                   /\ Call("read_input_byte", "process_input_byte_end")
              ELSE /\ mem' = mem
                   /\ pc' = "panic" /\ stack' = stack
    /\ UNCHANGED <<r1, r3, memLen, entry, lastOp, nops, loc>>
    /\ UNCHANGED dvars

ProcessInputByteEnd ==
    /\ pc = "process_input_byte_end"
    /\ Return
    /\ UNCHANGED <<r0, r1, r2, r3, r4, mem, memLen, log, entry, lastOp, nops, loc>>
    /\ UNCHANGED dvars

\* ---- buffer_check ----
BufferCheck ==
    /\ pc = "buffer_check"
    /\ IF InBounds(memLen, PassAddr + 24)
       THEN /\ r0' = BufferCheckR0(mem, 7)
            /\ r1' = Xor32(ReadMem(mem, PassAddr + 24), CheckWord(7))
            /\ r2' = CheckWord(7)
            /\ log' = log_index(PassAddr + 24)
            /\ Return
       ELSE /\ pc' = "panic"
            /\ UNCHANGED <<r0, r1, r2, log, stack>>
    /\ UNCHANGED <<r3, r4, mem, memLen, entry, lastOp, nops, loc>>
    /\ UNCHANGED dvars

\* ---- stage2_28d ----
Stage2_28d ==
    /\ pc = "stage2_28d"
    /\ IF InBounds(memLen, FlagAddr + 24)
       THEN /\ r0' = FlagChain(mem, 7).r0
            /\ r1' = wrapping_add(24, FlagAddr)
            /\ r2' = Xor32(FlagWord(7), FlagChain(mem, 7).r0)
            /\ mem' = FlagChain(mem, 7).mem
            /\ log' = log_index(FlagAddr + 24)
            /\ Return
       ELSE /\ pc' = "panic"
            /\ UNCHANGED <<r0, r1, r2, mem, log, stack>>
    /\ UNCHANGED <<r3, r4, memLen, entry, lastOp, nops, loc>>
    /\ UNCHANGED dvars

NextRun ==
    \/ RunStart \/ BufferCreate \/ RunGoodboy \/ RunNumbers
    \/ RunCollatzLoop \/ RunCollatzAfter \/ RunWinning
    \/ Stage2Main \/ MainAfterGen \/ MainAfterRead \/ MainBranch \/ MainEnd \/ RunFlag
    \/ GenerateBuffer \/ GenLoop \/ Stage2_105 \/ GenAfter
    \/ Collatz \/ CollatzHelper \/ CollatzEnd \/ CollatzHelperAfter
    \/ ReadInputByte \/ ReadInputByteEnd
    \/ ProcessInputByte \/ ProcessInputByteMix \/ ProcessInputByteEnd
    \/ BufferCheck \/ Stage2_28d

SpecRun == InitRun /\ [][NextRun]_vars

(***************************************************************************)
(* disassemble(): the loop that walks a buffer, one Instruction::parse per *)
(* iteration (main.rs, "seek to second stage and disassemble").  The       *)
(* buffer is a concatenation of at most MaxInsts pieces; loc holds the     *)
(* loop's offset curr, the number of parses made, and where a panic        *)
(* stopped the loop.                                                       *)
(***************************************************************************)
MaxInsts == 3     \* most pieces in a buffer

Digit(n) == Ch("0") + n

Sentinel == <<0>>
\* "%0.5lM": the `0.` lookahead
PieceLookahead == <<Ch("%"), Digit(0), Ch("."), Digit(5), Ch("l"), Ch("M")>>
\* "%+3.2hhX"
PieceExample == <<Ch("%"), Ch("+"), Digit(3), Ch("."), Digit(2), Ch("h"), Ch("h"), Ch("X")>>
\* "%05.5lC": zero-pad flag on a jump
PieceZeroPadJmp == <<Ch("%"), Digit(0), Digit(5), Ch("."), Digit(5), Ch("l"), Ch("C")>>
\* "%5M": no precision part
PieceNoSrc == <<Ch("%"), Digit(5), Ch("M")>>
\* "%4294967296.5lM": a width of 2^32
PieceBigWidth ==
    <<Ch("%")>> \o [k \in 1..10 |-> Digit(<<4, 2, 9, 4, 9, 6, 7, 2, 9, 6>>[k])]
        \o <<Ch("."), Digit(5), Ch("l"), Ch("M")>>
\* "%5Z": no such conversion character
PieceBadConv == <<Ch("%"), Digit(5), Ch("Z")>>
\* "%5": ends before the conversion character
PieceCut == <<Ch("%"), Digit(5)>>
\* a byte that is neither the sentinel nor '%'
PieceStray == <<200>>

\* pieces that follow the grammar: sentinel, or '%' [flag] digits ['.' digits [mod]] conv
GrammarPieces == {Sentinel, PieceLookahead, PieceExample, PieceZeroPadJmp, PieceNoSrc,
                  PieceBigWidth}
\* of these, the ones with a digit run of 2^32 or more
OverflowPieces == {PieceBigWidth}
DriverPieces == GrammarPieces \cup {PieceBadConv, PieceCut, PieceStray}

RECURSIVE Concat(_)
Concat(ps) == IF ps = <<>> THEN <<>> ELSE ps[1] \o Concat(Tail(ps))

Buffers == UNION {[1..n -> DriverPieces] : n \in 0..MaxInsts}

\* &mem[curr..]
SliceFrom(m, curr) == SubSeq(m, curr + 1, Len(m))

\* curr+1+mem[curr + 1..].iter().position(|c| *c == b'%' || *c == 0).unwrap_or_else(|| 30),
\* then .min(mem.len())
PreviewEnd(m, curr) ==
    LET hits == {j \in (curr + 1)..(Len(m) - 1) : m[j + 1] \in {Ch("%"), 0}}
        next == IF hits = {} THEN curr + 1 + 30
                ELSE CHOOSE j \in hits : \A k \in hits : j <= k
    IN  IF next < Len(m) THEN next ELSE Len(m)

\* mem[curr..upper]
Preview(m, curr) == SubSeq(m, curr + 1, PreviewEnd(m, curr))

\* an offset just before the buffer's end, never the offset disassemble computes
NextOffset_short(m, next) == Len(m) - Len(next) - 1

\* curr = mem.len() - next.len();
NextOffset(m, next) == Len(m) - Len(next)

InitDriver ==
    /\ overflow_checks \in BOOLEAN
    /\ shape \in {[kind |-> "buffer", insts |-> ps] : ps \in Buffers}
    /\ bytes = Concat(shape.insts)
    /\ parsed = NoResult
    /\ rendered = NoText
    /\ orig = NoInst
    /\ phase = "loop"
    /\ r0 = 0 /\ r1 = 0 /\ r2 = 0 /\ r3 = 0 /\ r4 = 0
    /\ mem = <<>> /\ memLen = 0 /\ log = ""
    /\ pc = "idle" /\ stack = <<>> /\ entry = <<>> /\ lastOp = <<>> /\ nops = 0
    /\ loc = [curr |-> 0, parses |-> 0, stopped |-> ""]

\* while mem.len() > curr { ...; let s = String::from_utf8(..).unwrap();
\*                          let (inst, next) = Instruction::parse(&mem[curr..]);
DisassembleParse ==
    /\ phase = "loop"
    /\ Len(bytes) > loc.curr
    /\ IF ~Utf8Valid(Preview(bytes, loc.curr))
       THEN /\ phase' = "panic"
            /\ loc' = [loc EXCEPT !.stopped = "from_utf8"]
            /\ parsed' = parsed
       ELSE LET p == parse(SliceFrom(bytes, loc.curr), overflow_checks)
            IN  /\ parsed' = p
                /\ phase' = IF p.status = "ok" THEN "print" ELSE "panic"
                /\ loc' = [loc EXCEPT !.parses = @ + 1,
                                      !.stopped = IF p.status = "ok" THEN "" ELSE "parse"]
    /\ UNCHANGED <<bytes, shape, overflow_checks, rendered, orig>>
    /\ UNCHANGED <<r0, r1, r2, r3, r4, mem, memLen, log, pc, stack, entry, lastOp, nops>>

\*   println!("{:#05x}:  {}", curr, inst); curr = mem.len() - next.len(); }
DisassemblePrint ==
    /\ phase = "print"
    /\ rendered' = fmt(parsed.inst)
    /\ IF fmt(parsed.inst).status = "ok"
       THEN /\ loc' = [loc EXCEPT !.curr = NextOffset(bytes, parsed.rest)]
            /\ phase' = "loop"
       ELSE /\ loc' = [loc EXCEPT !.stopped = "fmt"]
            /\ phase' = "panic"
    /\ UNCHANGED <<bytes, shape, overflow_checks, parsed, orig>>
    /\ UNCHANGED <<r0, r1, r2, r3, r4, mem, memLen, log, pc, stack, entry, lastOp, nops>>

\* the loop condition fails: the end of the buffer is reached
DisassembleEnd ==
    /\ phase = "loop"
    /\ ~(Len(bytes) > loc.curr)
    /\ phase' = "end"
    /\ UNCHANGED <<bytes, shape, overflow_checks, parsed, rendered, orig>>
    /\ UNCHANGED mvars

NextDriver == DisassembleParse \/ DisassemblePrint \/ DisassembleEnd

SpecDriver == InitDriver /\ [][NextDriver]_vars


(***************************************************************************)
(* Properties of the decoder, checked under SpecDecoder.                   *)
(***************************************************************************)
Bytes5(a, b, c, d, e) == <<Ch(a), Ch(b), Ch(c), Ch(d), Ch(e)>>

\* "%0.5M" and "%05M"
InZeroDot == <<Ch("%"), Ch("0"), Ch("."), Ch("0") + 5, Ch("M")>>
InZeroPad == <<Ch("%"), Ch("0"), Ch("0") + 5, Ch("M")>>

\* C1 (as stated): "%0.5M" decodes to Direct (NoPlusMinus) and "%05M" to
\* ZeroPadAbsolute (ZeroPad), with dest = 5 and op = Move in both.
C1_Original ==
    phase = "parsed" =>
        /\ bytes = InZeroDot =>
              /\ parsed.status = "ok"
              /\ parsed.inst.dest_mode = "NoPlusMinus"
              /\ parsed.inst.dest = U32Of(5)
              /\ parsed.inst.op = "Mov"
        /\ bytes = InZeroPad =>
              /\ parsed.status = "ok"
              /\ parsed.inst.dest_mode = "ZeroPad"
              /\ parsed.inst.dest = U32Of(5)
              /\ parsed.inst.op = "Mov"

\* C1 (amended): "%0.5M" decodes to NoPlusMinus with dest = 0 and src = 5 (the
\* "0" is the width, the "5" the precision), "%05M" decodes to ZeroPad with
\* dest = 5 and src = 0; both have src_mode None and op Mov and consume the
\* whole slice, so the two dest_modes differ.
C1_FlagLookahead ==
    phase = "parsed" =>
        /\ bytes = InZeroDot =>
              parsed = Ok(Instruction(U32Zero, U32Of(5), "NoPlusMinus", "None", "Mov"), <<>>)
        /\ bytes = InZeroPad =>
              parsed = Ok(Instruction(U32Of(5), U32Zero, "ZeroPad", "None", "Mov"), <<>>)

C1_Witness ==
    /\ phase = "parsed"
    /\ bytes = InZeroDot
    /\ parsed.status = "ok"
    /\ parsed.inst.dest_mode = "NoPlusMinus"
    /\ parsed.inst.src = U32Of(5)

\* a digit run without its leading zeros ("0" when nothing else is left): the
\* decimal numeral of the run's value
RECURSIVE Canon(_)
Canon(run) ==
    IF run = <<>> THEN <<Ch("0")>>
    ELSE IF Head(run) = Ch("0") /\ Len(run) > 1 THEN Canon(Tail(run))
    ELSE run

\* numerals of equal length compared digit by digit
RECURSIVE NumeralLeq(_, _)
NumeralLeq(a, b) ==
    IF a = <<>> THEN TRUE
    ELSE IF Head(a) # Head(b) THEN Head(a) < Head(b)
    ELSE NumeralLeq(Tail(a), Tail(b))

U32MaxNumeral == [k \in 1..10 |-> Ch("0") + <<4, 2, 9, 4, 9, 6, 7, 2, 9, 5>>[k]]

\* the run's value is below 2^32
FitsU32(run) ==
    \/ Len(Canon(run)) < 10
    \/ Len(Canon(run)) = 10 /\ NumeralLeq(Canon(run), U32MaxNumeral)

\* '%' [flag] digits '.' digits [modifier] conv, followed by at least one byte
WellFormedDotted(sh) ==
    sh.kind = "spec" /\ sh.dot /\ sh.conv \in Convs /\ sh.trail # <<>>

\* the tables of the claim
ClaimedSrcMode(md) ==
    CASE md = <<Ch("h"), Ch("h")>> -> "HH" [] md = <<Ch("h")>> -> "H"
      [] md = <<Ch("l"), Ch("l")>> -> "LL" [] md = <<Ch("l")>> -> "L"
      [] md = <<>> -> "None"

ClaimedOp(c) ==
    CASE c = Ch("C") -> "Jmp" [] c = Ch("M") -> "Mov" [] c = Ch("S") -> "Add"
      [] c = Ch("O") -> "Sub" [] c = Ch("X") -> "Mul" [] c = Ch("V") -> "Div"
      [] c = Ch("N") -> "Mod" [] c = Ch("L") -> "ShLeft" [] c = Ch("R") -> "ShRight"
      [] c = Ch("E") -> "Xor" [] c = Ch("I") -> "And" [] c = Ch("U") -> "Or"

DecodesAsClaimed(sh) ==
    /\ parsed.status = "ok"
    /\ DecBytes(parsed.inst.dest) = Canon(sh.d1)
    /\ DecBytes(parsed.inst.src) = Canon(sh.d2)
    /\ sh.flag = <<Ch("-")>> => parsed.inst.dest_mode = "Minus"
    /\ sh.flag = <<Ch("+")>> => parsed.inst.dest_mode = "Plus"
    /\ parsed.inst.src_mode = ClaimedSrcMode(sh.mod)
    /\ parsed.inst.op = ClaimedOp(sh.conv)
    /\ parsed.rest = sh.trail

\* C2 (as stated): every well-formed specifier '%' [flag] digits '.' digits
\* [modifier] conv followed by at least one byte decodes to dest = the value of
\* the first digit run, src = the value of the second, the modes and the
\* operation of the tables, and the rest right after the conversion character.
C2_Original ==
    (phase = "parsed" /\ WellFormedDotted(shape)) => DecodesAsClaimed(shape)

\* C2 (amended): the same, for the specifiers whose two digit runs have values
\* below 2^32 (dest and src are u32).
C2_DecodeFields ==
    (phase = "parsed" /\ WellFormedDotted(shape) /\ FitsU32(shape.d1) /\ FitsU32(shape.d2))
        => DecodesAsClaimed(shape)

\* "%+3.2hhX" followed by one byte
C2_Witness ==
    /\ phase = "parsed"
    /\ bytes = <<Ch("%"), Ch("+"), Ch("0") + 3, Ch("."), Ch("0") + 2,
                 Ch("h"), Ch("h"), Ch("X"), Ch("%")>>
    /\ parsed = Ok(Instruction(U32Of(3), U32Of(2), "Plus", "HH", "Mul"), <<Ch("%")>>)

\* C3: a slice whose first byte is zero decodes to Ret and the rest is the slice
\* without its first byte, whatever follows; a slice whose first byte is not zero
\* never decodes to Ret.
C3_Sentinel ==
    (phase = "parsed" /\ bytes # <<>>) =>
        /\ bytes[1] = 0 =>
              /\ parsed.status = "ok"
              /\ parsed.inst.op = "Ret"
              /\ parsed.rest = Tail(bytes)
        /\ (bytes[1] # 0 /\ parsed.status = "ok") => parsed.inst.op # "Ret"

C3_Witness ==
    /\ phase = "parsed"
    /\ bytes = <<0, Ch("%")>>
    /\ parsed.inst.op = "Ret"
    /\ parsed.rest = <<Ch("%")>>

\* C4: an instruction the decoder returned, re-encoded and decoded again, comes
\* back equal field by field.
C4_RoundTrip ==
    phase = "reparsed" => (parsed.status = "ok" /\ parsed.inst = orig)

\* the Direct operand 0 without a source part went around
C4_Witness ==
    /\ phase = "reparsed"
    /\ orig.dest_mode = "NoPlusMinus" /\ orig.dest = U32Zero
    /\ orig.src_mode = "None" /\ orig.src = U32Zero
    /\ orig.op = "Mov"
    /\ parsed.inst = orig

\* C6: on a slice that ends before the grammar is complete (the empty slice
\* included) the decoder does not panic: it returns UnexpectedEndOfStream.
C6_NoPanicOnTruncation ==
    (phase = "parsed" /\ shape.kind = "cut") =>
        (parsed.status # "panic" /\ parsed.status = "UnexpectedEndOfStream")

\* C7: an instruction of the decoder whose op is neither Jmp nor Ret and whose
\* src_mode is not None renders, for each dest_mode, as
\* "<dest> <operator> <src>;", and with ZeroPad as it does with Minus.
C7_ZeroPadRendersAsMinus ==
    (/\ phase = "rendered"
     /\ parsed.inst.op \notin {"Jmp", "Ret"}
     /\ parsed.inst.src_mode # "None") =>
        /\ rendered.status = "ok"
        /\ parsed.inst.dest_mode = "ZeroPad" =>
              rendered = fmt([parsed.inst EXCEPT !.dest_mode = "Minus"])

(***************************************************************************)
(* Properties of State::store and State::read, checked under SpecMem.      *)
(***************************************************************************)
\* the value four little-endian bytes stand for, as an i32
LeValue(b0, b1, b2, b3) ==
    b0 + 256 * b1 + 65536 * b2 + 16777216 * (IF b3 >= 128 THEN b3 - 256 ELSE b3)

\* C5: for an address whose index i has i + 4 <= mem.len(), store(addr, v)
\* followed by read(addr) returns v; store writes the four little-endian bytes
\* of v at mem[i..i+4] and changes no other byte and no register; read changes
\* neither memory nor registers.
C5_StoreRead ==
    /\ <<r0, r1, r2, r3, r4>> = <<11, -22, 33, I32Min, I32Max>>
    /\ memLen = MemLen /\ DOMAIN mem = 0..(MemLen - 1)
    /\ lastOp # <<>> =>
        LET op == lastOp[1]
            i  == op.addr
        IN  /\ (op.kind = "store" /\ i >= 0 /\ i + 4 <= memLen) =>
                /\ op.ok
                /\ \A j \in 0..(memLen - 1) :
                       /\ mem[j] \in 0..255
                       /\ (j < i \/ j > i + 3) => mem[j] = op.before[j]
                /\ LeValue(mem[i], mem[i + 1], mem[i + 2], mem[i + 3]) = op.val
            /\ op.kind = "read" => mem = op.before
            /\ (/\ op.kind = "read" /\ i >= 0 /\ i + 4 <= memLen
                /\ Len(lastOp) = 2 /\ lastOp[2].kind = "store" /\ lastOp[2].addr = i) =>
                   (op.ok /\ op.val = lastOp[2].val)

\* i32::MIN stored at the unaligned address 1 and read back
C5_Witness ==
    /\ Len(lastOp) = 2
    /\ lastOp[2].kind = "store" /\ lastOp[2].addr = 1 /\ lastOp[2].val = I32Min
    /\ lastOp[1].kind = "read" /\ lastOp[1].addr = 1 /\ lastOp[1].val = I32Min
    /\ mem[4] = 128

(***************************************************************************)
(* Properties of run(), checked under SpecRun.                             *)
(***************************************************************************)
\* C8: the input run() computes reverses the check: after read_input_byte the
\* first pass buffer at 0x1194 holds the 28 goodboy bytes, buffer_check leaves
\* r0 = 0, and stage2_main takes the "print flag" branch, not the "cheating" one.
C8_SolverReverses ==
    /\ pc = "main_after_read" => Slice(mem, PassAddr, InputLen) = loc.goodboy
    /\ pc = "main_branch" => r0 = 0
    /\ pc \in {"stage2_28d", "main_end", "run_flag", "done"} => loc.branch = "print flag"

(***************************************************************************)
(* Properties of generate_buffer (SpecGen) and of collatz (SpecCollatz).   *)
(***************************************************************************)
IsPrime(n) == n > 1 /\ \A d \in 2..(n - 1) : n % d # 0

PrimesIn == {n \in GenLo..(GenHi - 1) : IsPrime(n)}

\* the k-th prime of the interval, k = 0, 1, ...
KthPrime(k) == CHOOSE p \in PrimesIn : Cardinality({q \in PrimesIn : q < p}) = k

\* the primes of the interval in ascending order
PrimeSeq == [k \in 1..Cardinality(PrimesIn) |-> KthPrime(k - 1)]

PrimesBelow(n) == Cardinality({q \in PrimesIn : q < n})

\* the little-endian 16-bit word at address a
Word16(a) == ByteAt(mem, a) + 256 * ByteAt(mem, a + 1)

RegsInI32 == InI32(r0) /\ InI32(r1) /\ InI32(r2) /\ InI32(r3) /\ InI32(r4)

\* at the head of the loop: the primes below r0 are stored, in order
GenProgress ==
    pc = "gen_loop" =>
        /\ r0 \in GenLo..GenHi
        /\ r4 = BufAddr + 2 * PrimesBelow(r0)
        /\ \A k \in 0..(PrimesBelow(r0) - 1) : Word16(BufAddr + 2 * k) = PrimeSeq[k + 1]

\* on return from stage2_105: r1 > 0 exactly when r0 is prime
GenPrimality ==
    pc = "gen_after" => ((r1 > 0) <=> (r0 \in PrimesIn))

\* the counter goes up by one from one pass to the next, never down
GenAscending == [][r0' = r0 \/ r0' = r0 + 1 \/ pc = "generate_buffer"]_vars

\* on return: the words, r4, and nothing that depends on the entry state
GenResult ==
    pc = "done" =>
        /\ r0 = GenHi
        /\ r4 = BufAddr + 2 * Cardinality(PrimesIn)
        /\ \A k \in 0..(Cardinality(PrimesIn) - 1) : Word16(BufAddr + 2 * k) = PrimeSeq[k + 1]
        /\ Word16(r4) = 0
        /\ r1 = 0 /\ r2 = 117 /\ r3 = 117 * 117 - (GenHi - 1) - 1
        /\ \A j \in DOMAIN entry.mem :
               (j < BufAddr \/ j > r4 + 1) => ByteAt(mem, j) = entry.mem[j]
        /\ \A j \in DOMAIN mem : (j < BufAddr \/ j > r4 + 1) => j \in DOMAIN entry.mem

\* a measure of the work left: the numbers still to visit, then the position
\* in the pass, then the divisors stage2_105 has still to try
GenMeasure ==
    CASE pc = "generate_buffer" -> (GenHi - GenLo + 1) * 200
      [] pc = "gen_loop"        -> (GenHi - r0) * 200 + 150
      [] pc = "stage2_105"      -> (GenHi - r0) * 200 + (130 - r2)
      [] pc = "gen_after"       -> (GenHi - r0) * 200 + 5
      [] OTHER                  -> 0

\* every step takes the measure down, the measure is never negative, and the
\* function is always at a position that has a step (each step of NextGen is
\* guarded by its position alone) or has returned: it returns after finitely
\* many steps
GenTerminates ==
    /\ [](GenMeasure >= 0
          /\ pc \in {"generate_buffer", "gen_loop", "stage2_105", "gen_after", "done"})
    /\ [][GenMeasure' < GenMeasure]_vars

\* C9: generate_buffer terminates; whatever registers and memory it starts
\* with, it visits the numbers of [0x3390, 0x3520) in ascending order,
\* stage2_105 leaves r1 > 0 exactly for the primes, the k-th prime found is
\* stored at 0x1388 + 2k, and on return r4 = 0x1388 + 2 * (number of primes).
C9_GenerateBuffer ==
    /\ [](GenProgress /\ GenPrimality /\ GenResult /\ RegsInI32)
    /\ GenAscending
    /\ GenTerminates

\* returned, from the start with garbage in registers and memory
C9_Witness ==
    /\ pc = "done"
    /\ entry.mem = GarbageMem
    /\ r4 = BufAddr + 2 * 38
    /\ Word16(BufAddr) = 13217

\* the number of steps n -> n/2 (n even), n -> 3n+1 (n odd) from n to 1
RECURSIVE CollatzSteps(_)
CollatzSteps(n) ==
    IF n = 1 THEN 0
    ELSE 1 + CollatzSteps(IF n % 2 = 0 THEN n \div 2 ELSE 3 * n + 1)

CollatzFrame ==
    /\ r2 = entry.r2 /\ r3 = entry.r3 /\ r4 = entry.r4 /\ mem = entry.mem
    /\ RegsInI32

CollatzResult ==
    pc = "done" => (r0 = CollatzSteps(entry.r0) /\ r1 = 0)

\* C10: collatz entered with r0 = n, 1 <= n <= 28, terminates; on return r0 is
\* the number of Collatz steps from n to 1 and r1 is 0; r2, r3, r4 and the
\* memory are never changed and no register leaves the i32 range.
C10_Collatz ==
    /\ [](CollatzFrame /\ CollatzResult)
    /\ <>(pc = "done")

\* collatz(27) returned 111
C10_Witness ==
    /\ pc = "done"
    /\ entry.r0 = 27
    /\ r0 = 111 /\ r1 = 0 /\ r2 = 27 /\ r4 = 255

(***************************************************************************)
(* Properties of the disassembly loop, checked under SpecDriver.           *)
(***************************************************************************)
\* every piece of the buffer follows the grammar
WellFormedBuffer == \A k \in DOMAIN shape.insts : shape.insts[k] \in GrammarPieces

\* no digit run of the buffer is 2^32 or more
NumeralsFit == \A k \in DOMAIN shape.insts : shape.insts[k] \notin OverflowPieces

\* the offset at which piece k + 1 of the buffer starts
StartOf(k) == Len(Concat(SubSeq(shape.insts, 1, k)))

\* after a parse that returned, the remaining slice is the buffer from some
\* offset beyond curr on: at least one byte was taken, none skipped or re-read
ParseConsumes ==
    phase = "print" =>
        /\ parsed.status = "ok"
        /\ \E n \in (loc.curr + 1)..Len(bytes) : parsed.rest = SliceFrom(bytes, n)

\* the offset never decreases, and the update after a parse strictly increases
\* it and keeps it inside the buffer
OffsetIncreases ==
    /\ loc'.curr >= loc.curr
    /\ (phase = "print" /\ phase' = "loop") =>
           (loc'.curr > loc.curr /\ loc'.curr <= Len(bytes))

\* on a well-formed buffer the loop is at the start of piece parses + 1 before
\* each parse, and neither the parse nor the preview string stops it
OneInstructionPerParse ==
    /\ phase = "loop" => (loc.parses <= Len(shape.insts) /\ loc.curr = StartOf(loc.parses))
    /\ loc.stopped \notin {"parse", "from_utf8"}

\* the loop is over: the end of the buffer is reached, or println! stopped it
\* in Display::fmt after a parse that returned
LoopOver ==
    \/ phase = "end" /\ loc.curr = Len(bytes) /\ loc.parses = Len(shape.insts)
    \/ phase = "panic" /\ loc.stopped = "fmt" /\ rendered.status = "panic"

\* a measure of the work left: the bytes still to decode, then the position in
\* the iteration
DriverMeasure ==
    CASE phase = "loop"  -> 2 * (Len(bytes) - loc.curr) + 2
      [] phase = "print" -> 2 * (Len(bytes) - loc.curr) + 1
      [] OTHER           -> 0

\* every step takes the measure down, the measure is never negative, and the
\* loop is always at a position that has a step (at "loop" one of the two
\* outcomes of the loop condition, at "print" the print) or is over: it is
\* over after finitely many parses
DriverTerminates ==
    /\ [](DriverMeasure >= 0 /\ phase \in {"loop", "print", "end", "panic"})
    /\ [][DriverMeasure' < DriverMeasure]_vars

====
